---- MODULE Spec2Model ----
(***************************************************************************)
(* Model of generic/tclArithSeries.c: the arithmetic-series abstract list. *)
(*                                                                         *)
(* Numbers.  An Integer series keeps Tcl_WideInt fields, modelled as TLA+  *)
(* integers.  A Float series keeps doubles; the model keeps a double d as  *)
(* the integer d * DblUnit, so the doubles of the model are the multiples  *)
(* of 1/DblUnit, on which +, - and * by an index are exact.  The C         *)
(* conversion double -> Tcl_WideInt truncates toward zero (CDiv).          *)
(***************************************************************************)
EXTENDS Integers, Sequences, FiniteSets, TLC

\* ---------------------------------------------------------------- bounds
MaxObjs == 3      \* Tcl_Obj slots of the modelled heap
MaxArrs == 2      \* element arrays the modelled heap can allocate
MaxOps  == 3      \* operations of one run
MaxRef  == 2      \* largest reference count the host reaches
MaxIdx  == 2      \* index arguments range over -1 .. MaxIdx

\* The host's maximum list size, scaled down so that counts beyond it are
\* within the numbers explored.
ListSizeT_MAX == 30

DblUnit == 2      \* a double d is kept as the integer d * DblUnit

\* The major versions of the host the file is built against: the length
\* check of TclNewArithSeriesObj is compiled only for a major version
\* below 9.
TCL_MAJOR_VERSION == {8, 9}

\* ------------------------------------------------------------ arithmetic
Abs(x) == IF x < 0 THEN -x ELSE x

\* C integer division (and double -> integer conversion of a quotient):
\* the quotient truncated toward zero.  b # 0.
CDiv(a, b) ==
    IF (a >= 0) = (b > 0) THEN Abs(a) \div Abs(b) ELSE -(Abs(a) \div Abs(b))

\* Mathematical floor division, used only to state claims.  b # 0.
FloorDiv(a, b) == IF b > 0 THEN a \div b ELSE (-a) \div (-b)

\* (Tcl_WideInt) d  for a double d
DblToWide(d) == CDiv(d, DblUnit)

\* Values an uninitialised local or an unset out-parameter can hold.
Garbage == {-1, 0, 2}

\* -------------------------------------------------------- number objects
\* A Tcl number object: t says how the host typed it.  NoObj is a NULL
\* Tcl_Obj pointer.
NoObj == [t |-> "none", v |-> 0]
IntObj(i) == [t |-> "int", v |-> i]
DblObj(d) == [t |-> "dbl", v |-> d]

assignNumber(useDoubles, numberObj) ==
    IF useDoubles
    THEN IF numberObj.t = "dbl" THEN numberObj.v ELSE numberObj.v * DblUnit
    ELSE IF numberObj.t = "int" THEN numberObj.v ELSE DblToWide(numberObj.v)

\* ------------------------------------------------------ Bounds Calculator
ArithSeriesLen(start, end, step) ==
    IF step = 0 THEN 0
    ELSE LET len == 1 + CDiv(end - start, step)
         IN IF len < 0 THEN -1 ELSE len

\* ---------------------------------------------------------- construction
\* What a constructor hands back: an arithmetic series representation, the
\* empty Tcl_Obj, or an error (no value).
ArithRes(isDouble, start, end, step, len) ==
    [status |-> "ok", kind |-> "arith", isDouble |-> isDouble,
     start |-> start, end |-> end, step |-> step, len |-> len]
EmptyRes ==
    [status |-> "ok", kind |-> "empty", isDouble |-> FALSE,
     start |-> 0, end |-> 0, step |-> 0, len |-> 0]
ErrorRes ==
    [status |-> "error", kind |-> "none", isDouble |-> FALSE,
     start |-> 0, end |-> 0, step |-> 0, len |-> 0]

\* Mutant: the supplied length is used only when positive.
TclNewArithSeriesIntBad(start, end, step, len) ==
    LET length == IF len > 0 THEN len ELSE ArithSeriesLen(start, end, step)
    IN IF length <= 0 THEN EmptyRes
       ELSE ArithRes(FALSE, start, end, step, length)

TclNewArithSeriesInt(start, end, step, len) ==
    LET length == IF len >= 0 THEN len ELSE ArithSeriesLen(start, end, step)
    IN IF length <= 0 THEN EmptyRes
       ELSE ArithRes(FALSE, start, end, step, length)

TclNewArithSeriesDbl(start, end, step, len) ==
    LET length == IF len >= 0 THEN len
                  ELSE ArithSeriesLen(DblToWide(start), DblToWide(end),
                                      DblToWide(step))
    IN IF length <= 0 THEN EmptyRes
       ELSE ArithRes(TRUE, start, end, step, length)

\* Mutant: a zero step is reported as an error.
ZeroStepBad == ErrorRes

\* What the constructor hands back for a step that is zero: a fresh empty
\* Tcl_Obj, with TCL_OK.
ZeroStepRes == EmptyRes

\* The set of outcomes of TclNewArithSeriesObj: one outcome per build when
\* every local is assigned before it is read, one per garbage value
\* otherwise.
TclNewArithSeriesObj(useDoubles, startObj, endObj, stepObj, lenObj) ==
    LET one   == IF useDoubles THEN DblUnit ELSE 1
        start == IF startObj # NoObj THEN assignNumber(useDoubles, startObj)
                 ELSE 0
        hasSE == startObj # NoObj /\ endObj # NoObj
        endIn == IF endObj # NoObj THEN assignNumber(useDoubles, endObj)
                 ELSE 0
        steps == IF stepObj # NoObj THEN {assignNumber(useDoubles, stepObj)}
                 ELSE IF hasSE THEN {IF start < endIn THEN one ELSE -one}
                 ELSE Garbage
        lens(step) ==
                 IF lenObj # NoObj THEN {lenObj.v}
                 ELSE IF hasSE THEN {CDiv(endIn - start + step, step)}
                 ELSE Garbage
        Make(step, len) ==
            LET end == IF endObj # NoObj THEN endIn
                       ELSE start + step * (len - 1)
            IN {IF major < 9 /\ len > ListSizeT_MAX THEN ErrorRes
                ELSE IF useDoubles
                     THEN TclNewArithSeriesDbl(start, end, step, len)
                     ELSE TclNewArithSeriesInt(start, end, step, len) :
                   major \in TCL_MAJOR_VERSION}
    IN IF stepObj # NoObj /\ assignNumber(useDoubles, stepObj) = 0
       THEN {ZeroStepRes}
       ELSE IF lenObj # NoObj /\ lenObj.t # "int"
       THEN {ErrorRes}
       ELSE UNION {UNION {Make(st, ln) : ln \in lens(st)} : st \in steps}


\* ------------------------------------------------------------ text forms
\* The minimal text form of a number, as a sequence of characters.
Digit(d) == <<SubSeq(<<"0","1","2","3","4","5","6","7","8","9">>, d+1, d+1)[1]>>

RECURSIVE FormatNat(_)
FormatNat(n) == IF n < 10 THEN Digit(n) ELSE FormatNat(n \div 10) \o Digit(n % 10)

FormatInt(i) == IF i < 0 THEN <<"-">> \o FormatNat(-i) ELSE FormatNat(i)

\* A double of the model (a multiple of 1/DblUnit) prints with one decimal.
FormatDbl(d) ==
    (IF d < 0 THEN <<"-">> ELSE <<>>) \o FormatNat(Abs(d) \div DblUnit)
    \o <<".">> \o Digit(((Abs(d) % DblUnit) * 10) \div DblUnit)

\* ------------------------------------------------------------------ state
VARIABLES
    obj,      \* the Tcl_Obj slots: header and ArithSeries representation
    arr,      \* the element arrays of the heap (the caches)
    last,     \* the last call: its number, operation, arguments, outcome and
              \* the source value as it was before the call
    args,     \* the arguments of the construction that made the first value
    nops      \* operations performed

vars == <<obj, arr, last, args, nops>>

ObjIds == 1 .. MaxObjs
ArrIds == 1 .. MaxArrs

\* A slot that holds no value ("free": never used, "freed": released).
FreeObj ==
    [st |-> "free", hdr |-> TRUE, refCount |-> 0, hasBytes |-> FALSE,
     bytes |-> <<>>, isDouble |-> FALSE, start |-> 0, end |-> 0, step |-> 0,
     len |-> 0, elements |-> 0]

\* A fresh abstract list Tcl_Obj around a representation: refcount 0, no
\* string representation, no cache.
NewObj(r) ==
    [st |-> "live", hdr |-> TRUE, refCount |-> 0, hasBytes |-> FALSE,
     bytes |-> <<>>, isDouble |-> r.isDouble, start |-> r.start,
     end |-> r.end, step |-> r.step, len |-> r.len, elements |-> 0]

NoArr == [st |-> "none", vals |-> <<>>]

NoCall ==
    [n |-> 0, op |-> "none", src |-> 0, res |-> 0, status |-> "ok", path |-> "none",
     a |-> 0, b |-> 0, val |-> 0, arr |-> 0, pre |-> FreeObj]

Call(op, src, res, status, path, a, b, val, ar) ==
    [n |-> last.n + 1, op |-> op, src |-> src, res |-> res, status |-> status, path |-> path,
     a |-> a, b |-> b, val |-> val, arr |-> ar, pre |-> obj[src]]

crashed == last.status = "crash"

Live(o) == obj[o].st = "live"
HasFree == \E o \in ObjIds : obj[o].st = "free"
Fresh == CHOOSE o \in ObjIds : obj[o].st = "free"
                                /\ \A q \in ObjIds : obj[q].st = "free" => o <= q
HasFreeArr == \E a \in ArrIds : arr[a].st = "none"
FreshArr == CHOOSE a \in ArrIds : arr[a].st = "none"
                                /\ \A q \in ArrIds : arr[q].st = "none" => a <= q

\* The element sequence of a representation: element i is start + i*step.
\* Mutant: the step is left out of the element formula.
ArithSeriesIndexMBad(r, index) == r.start + index

ArithSeriesIndexM(r, index) == r.start + index * r.step
Elems(r) == [i \in 1 .. r.len |-> ArithSeriesIndexM(r, i - 1)]

\* Mutant: the sharing threshold is off by one.
Tcl_IsSharedBad(o) == obj[o].refCount > 2

Tcl_IsShared(o) == obj[o].refCount > 1

CanStep(o) == o \in ObjIds /\ Live(o) /\ ~crashed /\ nops < MaxOps

\* A call on a value whose header was overwritten: the type pointer no longer
\* names the abstract list type and the representation pointer is lost.
Panic(op, o, a, b) ==
    /\ last' = Call(op, o, 0, "crash", "none", a, b, 0, 0)
    /\ UNCHANGED <<obj, arr>>


\* --------------------------------------------------------------- indexAt
\* Values an out-parameter that was never set can turn out to hold.
Stale == {-1, 2}

\* The outcomes of the element lookup as Range and Reverse use it: they
\* ignore its return code, so on failure the out-parameter is unset and the
\* caller goes on with whatever it holds, or faults dereferencing it.
Lookup(r, index) ==
    IF index >= 0 /\ index < r.len
    THEN {[ok |-> TRUE, v |-> ArithSeriesIndexM(r, index)]}
    ELSE {[ok |-> FALSE, v |-> 0]} \cup {[ok |-> TRUE, v |-> g] : g \in Stale}

TclArithSeriesObjIndex(o, index) ==
    /\ CanStep(o)
    /\ nops' = nops + 1
    /\ UNCHANGED args
    /\ IF ~obj[o].hdr
       THEN Panic("index", o, index, 0)
       ELSE /\ UNCHANGED <<obj, arr>>
            /\ IF index < 0 \/ index >= obj[o].len
               THEN last' = Call("index", o, 0, "error", "none", index, 0, 0, 0)
               ELSE last' = Call("index", o, 0, "ok", "none", index, 0,
                                 ArithSeriesIndexM(obj[o], index), 0)

\* ---------------------------------------------------------------- length
TclArithSeriesObjLength(o) ==
    /\ CanStep(o)
    /\ nops' = nops + 1
    /\ UNCHANGED args
    /\ IF ~obj[o].hdr
       THEN Panic("length", o, 0, 0)
       ELSE /\ UNCHANGED <<obj, arr>>
            /\ last' = Call("length", o, 0, "ok", "none", 0, 0, obj[o].len, 0)

\* ------------------------------------------------------------- duplicate
\* The host makes the new Tcl_Obj (refcount 0, the string representation
\* copied); DupArithSeriesRep gives it a copy of the whole structure.
DupArithSeriesRep(src) ==
    [obj[src] EXCEPT !.refCount = 0]

Duplicate(o) ==
    /\ CanStep(o)
    /\ HasFree
    /\ nops' = nops + 1
    /\ UNCHANGED args
    /\ IF ~obj[o].hdr
       THEN Panic("dup", o, 0, 0)
       ELSE /\ obj' = [obj EXCEPT ![Fresh] = DupArithSeriesRep(o)]
            /\ UNCHANGED arr
            /\ last' = Call("dup", o, Fresh, "ok", "copy", 0, 0, 0, 0)

\* --------------------------------------------------------------- release
\* Releasing the elements of a cache and its storage.  When the array was
\* already freed through another representation that points at it, this
\* is a second free of the same memory.
ArrLive(a) == a # 0 /\ arr[a].st = "live"
ArrDangling(a) == a # 0 /\ arr[a].st = "freed"
FreeArr(a) == [arr EXCEPT ![a] = [@ EXCEPT !.st = "freed"]]

\* Decrementing the elements of an array that is already freed reads and
\* writes freed memory: the call may go through or fault.
DecrFreed(a) == IF ArrDangling(a) THEN {"ok", "crash"} ELSE {"ok"}

FreeArithSeriesRep(o) ==
    IF obj[o].elements # 0 THEN FreeArr(obj[o].elements) ELSE arr

\* Tcl_IncrRefCount and Tcl_DecrRefCount by the host: bookkeeping of the
\* value's holders, no call into the series code while a holder remains.
\* One step takes or drops k references.
Share(o, k) ==
    /\ CanStep(o)
    /\ obj[o].hdr
    /\ obj[o].refCount + k <= MaxRef
    /\ nops' = nops + 1
    /\ obj' = [obj EXCEPT ![o].refCount = @ + k]
    /\ UNCHANGED <<arr, last, args>>

Unshare(o, k) ==
    /\ CanStep(o)
    /\ obj[o].hdr
    /\ obj[o].refCount - k >= 1
    /\ nops' = nops + 1
    /\ obj' = [obj EXCEPT ![o].refCount = @ - k]
    /\ UNCHANGED <<arr, last, args>>

\* The last holder lets go (or a value never held is dropped): the host
\* frees the value through FreeArithSeriesRep.
Release(o) ==
    /\ CanStep(o)
    /\ nops' = nops + 1
    /\ UNCHANGED args
    /\ IF ~obj[o].hdr
       THEN Panic("release", o, 0, 0)
       ELSE /\ obj[o].refCount <= 1
            /\ obj' = [obj EXCEPT ![o] = [@ EXCEPT !.st = "freed",
                                                     !.refCount = 0]]
            /\ arr' = FreeArithSeriesRep(o)
            /\ \E outcome \in DecrFreed(obj[o].elements) :
                  last' = Call("release", o, 0, outcome, "free", 0, 0, 0, 0)

\* ----------------------------------------------------------------- range
NumObj(isDouble, v) == IF isDouble THEN DblObj(v) ELSE IntObj(v)

Invalidated(r) == [r EXCEPT !.hasBytes = FALSE, !.bytes = <<>>]

\* The in-place branch.  For a Float series the code casts the Tcl_Obj
\* itself, not its representation, to ArithSeriesDbl and stores through it:
\* the stores land on the value's header and the representation keeps its
\* old fields.
RangeInPlace(r, start, end) ==
    IF r.isDouble
    THEN [Invalidated(r) EXCEPT !.hdr = FALSE]
    ELSE [Invalidated(r) EXCEPT !.start = start, !.end = end,
                                !.len = CDiv(end - start + r.step, r.step),
                                !.elements = 0]

TclArithSeriesObjRange(o, fromIdx0, toIdx) ==
    LET r == obj[o]
        fromIdx == IF fromIdx0 < 0 THEN 0 ELSE fromIdx0
    IN
    /\ CanStep(o)
    /\ nops' = nops + 1
    /\ UNCHANGED args
    /\ IF ~r.hdr
       THEN Panic("range", o, fromIdx0, toIdx)
       ELSE IF fromIdx > toIdx
       THEN /\ UNCHANGED <<obj, arr>>
            /\ last' = Call("range", o, 0, "ok", "empty", fromIdx0, toIdx, 0, 0)
       ELSE \E s \in Lookup(r, fromIdx), e \in Lookup(r, toIdx) :
            IF ~s.ok \/ ~e.ok
            THEN /\ UNCHANGED <<obj, arr>>
                 /\ last' = Call("range", o, 0, "crash", "none", fromIdx0, toIdx, 0, 0)
            ELSE IF Tcl_IsShared(o)
            THEN \E out \in TclNewArithSeriesObj(r.isDouble,
                                NumObj(r.isDouble, s.v), NumObj(r.isDouble, e.v),
                                NumObj(r.isDouble, r.step), NoObj) :
                 /\ UNCHANGED arr
                 /\ IF out.kind = "arith"
                    THEN /\ HasFree
                         /\ obj' = [obj EXCEPT ![Fresh] = NewObj(out)]
                         /\ last' = Call("range", o, Fresh, "ok", "copy",
                                         fromIdx0, toIdx, 0, 0)
                    ELSE /\ UNCHANGED obj
                         /\ last' = Call("range", o, 0, out.status, "copy",
                                         fromIdx0, toIdx, 0, 0)
            ELSE /\ obj' = [obj EXCEPT ![o] = RangeInPlace(r, s.v, e.v)]
                 /\ UNCHANGED arr
                 /\ last' = Call("range", o, o, "ok", "inplace",
                                 fromIdx0, toIdx, 0, 0)

\* --------------------------------------------------------------- reverse
\* Mutant: the new endpoints are installed, the step keeps its sign.
ReverseInPlaceBad(r, start, end, step) ==
    [Invalidated(r) EXCEPT !.start = start, !.end = end, !.elements = 0]

\* Mutant: the new fields are installed, the cache pointer is kept.
ReverseInPlaceKeep(r, start, end, step) ==
    [Invalidated(r) EXCEPT !.start = start, !.end = end, !.step = step]

ReverseInPlace(r, start, end, step) ==
    [Invalidated(r) EXCEPT !.start = start, !.end = end, !.step = step,
                           !.elements = 0]

TclArithSeriesObjReverse(o) ==
    LET r == obj[o]
        len == r.len
        step == -r.step
    IN
    /\ CanStep(o)
    /\ nops' = nops + 1
    /\ UNCHANGED args
    /\ IF ~r.hdr
       THEN Panic("reverse", o, 0, 0)
       ELSE \E s \in Lookup(r, len - 1), e \in Lookup(r, 0) :
            IF ~s.ok \/ ~e.ok
            THEN /\ UNCHANGED <<obj, arr>>
                 /\ last' = Call("reverse", o, 0, "crash", "none", 0, 0, 0, 0)
            ELSE IF Tcl_IsShared(o)
            THEN \E out \in TclNewArithSeriesObj(r.isDouble,
                                NumObj(r.isDouble, s.v), NumObj(r.isDouble, e.v),
                                NumObj(r.isDouble, step), IntObj(len)) :
                 /\ UNCHANGED arr
                 /\ IF out.kind = "arith"
                    THEN /\ HasFree
                         /\ obj' = [obj EXCEPT ![Fresh] = NewObj(out)]
                         /\ last' = Call("reverse", o, Fresh, "ok", "copy",
                                         0, 0, 0, 0)
                    ELSE /\ UNCHANGED obj
                         /\ last' = Call("reverse", o, 0, out.status, "copy",
                                         0, 0, 0, 0)
            ELSE /\ obj' = [obj EXCEPT ![o] = ReverseInPlace(r, s.v, e.v, step)]
                 /\ arr' = FreeArithSeriesRep(o)
                 /\ \E outcome \in DecrFreed(r.elements) :
                       last' = Call("reverse", o, o, outcome, "inplace",
                                    0, 0, 0, 0)

\* ----------------------------------------------------------- getElements
\* Mutant: the cache is not consulted, every call materializes anew.
GetElementsBad(o, wantObjv) ==
    LET r == obj[o]
        objc == r.len
    IN
    /\ CanStep(o)
    /\ nops' = nops + 1
    /\ UNCHANGED args
    /\ r.hdr /\ wantObjv /\ objc > 0
    /\ HasFreeArr
    /\ arr' = [arr EXCEPT ![FreshArr] = [st |-> "live", vals |-> Elems(r)]]
    /\ obj' = [obj EXCEPT ![o].elements = FreshArr]
    /\ last' = Call("getElements", o, 0, "ok", "filled", 0, 0, objc, FreshArr)

\* wantObjv = FALSE is the call with objvPtr == NULL, which asks for the
\* count alone.
TclArithSeriesGetElements(o, wantObjv) ==
    LET r == obj[o]
        objc == r.len
    IN
    /\ CanStep(o)
    /\ nops' = nops + 1
    /\ UNCHANGED args
    /\ IF ~r.hdr
       THEN Panic("getElements", o, 0, 0)
       ELSE IF ~wantObjv
       THEN /\ UNCHANGED <<obj, arr>>
            /\ last' = Call("getElements", o, 0, "ok", "count", 0, 0, objc, 0)
       ELSE IF objc # 0 /\ r.elements # 0
       THEN /\ UNCHANGED <<obj, arr>>
            /\ last' = Call("getElements", o, 0, "ok", "cached", 0, 0, objc,
                            r.elements)
       ELSE IF objc > 0
       THEN /\ HasFreeArr
            /\ arr' = [arr EXCEPT ![FreshArr] = [st |-> "live", vals |-> Elems(r)]]
            /\ obj' = [obj EXCEPT ![o].elements = FreshArr]
            /\ last' = Call("getElements", o, 0, "ok", "filled", 0, 0, objc,
                            FreshArr)
       ELSE /\ obj' = [obj EXCEPT ![o].elements = 0]
            /\ UNCHANGED arr
            /\ last' = Call("getElements", o, 0, "ok", "null", 0, 0, objc, 0)

\* The materializing loop when making element k fails (the index procedure
\* returns an error because the host could not make the element): the call
\* returns TCL_ERROR from inside the loop.  The array and the k elements
\* made so far stay allocated and the representation is not touched.
GetElementsFail(o, k) ==
    LET r == obj[o]
        objc == r.len
    IN
    /\ CanStep(o)
    /\ nops' = nops + 1
    /\ UNCHANGED args
    /\ r.hdr
    /\ ~(objc # 0 /\ r.elements # 0)
    /\ objc > 0
    /\ k \in 0 .. objc - 1
    /\ HasFreeArr
    /\ arr' = [arr EXCEPT ![FreshArr] =
                  [st |-> "live", vals |-> SubSeq(Elems(r), 1, k)]]
    /\ UNCHANGED obj
    /\ last' = Call("getElements", o, 0, "error", "failed", k, 0, 0, 0)

\* -------------------------------------------------------------- textForm
ElemText(r, i) ==
    IF r.isDouble THEN FormatDbl(ArithSeriesIndexM(r, i))
    ELSE FormatInt(ArithSeriesIndexM(r, i))

\* Pass 1: the buffer size, one more than each element's text length.
RECURSIVE Pass1(_, _)
Pass1(r, n) == IF n <= 0 THEN 0 ELSE Pass1(r, n - 1) + Len(ElemText(r, n - 1)) + 1

\* Pass 2: each element's text followed by a space.
RECURSIVE Pass2(_, _)
Pass2(r, n) == IF n <= 0 THEN <<>> ELSE Pass2(r, n - 1) \o ElemText(r, n - 1) \o <<" ">>

\* Mutant: the final space is not dropped.
UpdateStringBad(r) ==
    LET llen == r.len
        length == Pass1(r, llen)
    IN IF llen <= 0 THEN <<>>
       ELSE SubSeq(Pass2(r, llen), 1, length)

UpdateStringOfArithSeries(r) ==
    LET llen == r.len
        length == Pass1(r, llen)
    IN IF llen <= 0 THEN <<>>
       ELSE SubSeq(Pass2(r, llen), 1, length - 1)

\* The host's Tcl_GetString: it renders only a value that has no string
\* representation.
TextForm(o) ==
    /\ CanStep(o)
    /\ nops' = nops + 1
    /\ UNCHANGED <<args, arr>>
    /\ IF ~obj[o].hdr
       THEN Panic("textForm", o, 0, 0)
       ELSE IF obj[o].hasBytes
       THEN /\ UNCHANGED obj
            /\ last' = Call("textForm", o, 0, "ok", "cached", 0, 0, 0, 0)
       ELSE /\ obj' = [obj EXCEPT ![o] = [@ EXCEPT !.hasBytes = TRUE,
                                 !.bytes = UpdateStringOfArithSeries(obj[o])]]
            /\ last' = Call("textForm", o, 0, "ok", "rendered", 0, 0, 0, 0)


\* ----------------------------------------------------------- the machine
Args(useDoubles, startObj, endObj, stepObj, lenObj) ==
    [useDoubles |-> useDoubles, startObj |-> startObj, endObj |-> endObj,
     stepObj |-> stepObj, lenObj |-> lenObj]

NewOutcomes(a) ==
    TclNewArithSeriesObj(a.useDoubles, a.startObj, a.endObj, a.stepObj, a.lenObj)

\* The constructions the runs start from: start, end and step supplied.
InitArgs ==
    {Args(FALSE, IntObj(1), IntObj(e), IntObj(st), NoObj) :
        e \in {2, 3}, st \in {1, 2}}
    \cup {Args(FALSE, IntObj(3), IntObj(1), IntObj(-1), NoObj),
          Args(FALSE, IntObj(3), IntObj(0), IntObj(-2), NoObj),
          Args(FALSE, IntObj(5), IntObj(5), IntObj(1), NoObj),
          Args(TRUE, DblObj(1), DblObj(3), DblObj(1), NoObj),
          Args(TRUE, IntObj(0), DblObj(3), DblObj(2), NoObj),
          Args(TRUE, DblObj(3), DblObj(1), DblObj(-1), NoObj)}

\* The state after construction: the new value, which no holder or MaxRef
\* holders of the host refer to.
Init ==
    /\ args \in InitArgs
    /\ \E out \in NewOutcomes(args), rc \in {0, MaxRef} :
          /\ out.kind = "arith"
          /\ obj = [o \in ObjIds |->
                      IF o = 1 THEN [NewObj(out) EXCEPT !.refCount = rc]
                      ELSE FreeObj]
    /\ arr = [a \in ArrIds |-> NoArr]
    /\ last = NoCall
    /\ nops = 0

Idx == -1 .. MaxIdx
FromIdx == {-1, 0, 1}
ToIdx == 0 .. MaxIdx

Next ==
    \E o \in ObjIds :
       \/ \E i \in Idx : TclArithSeriesObjIndex(o, i)
       \/ TclArithSeriesObjLength(o)
       \/ \E f \in FromIdx, t \in ToIdx : TclArithSeriesObjRange(o, f, t)
       \/ TclArithSeriesObjReverse(o)
       \/ \E w \in BOOLEAN : TclArithSeriesGetElements(o, w)
       \/ Duplicate(o)
       \/ TextForm(o)
       \/ \E k \in 1 .. MaxRef : Share(o, k)
       \/ \E k \in 1 .. MaxRef : Unshare(o, k)
       \/ Release(o)

Spec == Init /\ [][Next]_vars


\* ------------------------------------- runs in which the host runs short
\* The runs of SpecOom are those of Spec together with materializations
\* that fail partway.
NextOom ==
    \/ Next
    \/ \E o \in ObjIds, k \in 0 .. MaxIdx : GetElementsFail(o, k)

SpecOom == Init /\ [][NextOom]_vars


\* ------------------------------------------------- construction, on its own
\* The runs of SpecNew make one construction from any subset of the four
\* arguments and stop.
MaxNum == 10      \* end arguments range over -MaxNum .. MaxNum

NoArgs == Args(FALSE, NoObj, NoObj, NoObj, NoObj)

StartIn == {NoObj, DblObj(1)} \cup {IntObj(i) : i \in {0, 1, 5}}
EndIn   == {NoObj, DblObj(3), DblObj(-3), IntObj(ListSizeT_MAX + 5)}
           \cup {IntObj(i) : i \in -MaxNum .. MaxNum}
StepIn  == {NoObj, DblObj(1), DblObj(3)} \cup {IntObj(i) : i \in -3 .. 3}
LenIn   == {NoObj, DblObj(4), IntObj(ListSizeT_MAX + 1)}
           \cup {IntObj(i) : i \in {-1, 0, 2}}

NewArgs ==
    {Args(d, s, e, st, l) :
        d \in BOOLEAN, s \in StartIn, e \in EndIn, st \in StepIn, l \in LenIn}

InitNew ==
    /\ args = NoArgs
    /\ obj = [o \in ObjIds |-> FreeObj]
    /\ arr = [a \in ArrIds |-> NoArr]
    /\ last = NoCall
    /\ nops = 0

Construct(a) ==
    /\ nops = 0
    /\ nops' = 1
    /\ args' = a
    /\ UNCHANGED arr
    /\ \E out \in NewOutcomes(a) :
          /\ obj' = IF out.kind = "arith" THEN [obj EXCEPT ![1] = NewObj(out)]
                    ELSE obj
          /\ last' = [NoCall EXCEPT !.n = 1, !.op = "new",
                                    !.res = IF out.kind = "arith" THEN 1 ELSE 0,
                                    !.status = out.status, !.path = out.kind]

NextNew == \E a \in NewArgs : Construct(a)

SpecNew == InitNew /\ [][NextNew]_vars

\* The same call made a second time, with the arguments of the first; the
\* arguments stay below the length limit, where every build takes the same
\* branch at the length check.
TwoArgs ==
    {Args(d, s, e, st, l) :
        d \in BOOLEAN, s \in StartIn,
        e \in EndIn \ {IntObj(ListSizeT_MAX + 5)}, st \in StepIn,
        l \in LenIn \ {IntObj(ListSizeT_MAX + 1)}}

ConstructAgain ==
    /\ nops = 1
    /\ last.op = "new"
    /\ nops' = 2
    /\ UNCHANGED <<args, arr>>
    /\ \E out \in NewOutcomes(args) :
          /\ obj' = IF out.kind = "arith" THEN [obj EXCEPT ![2] = NewObj(out)]
                    ELSE obj
          /\ last' = [NoCall EXCEPT !.n = 2, !.op = "new",
                                    !.res = IF out.kind = "arith" THEN 2 ELSE 0,
                                    !.status = out.status, !.path = out.kind]

NextTwo == (\E a \in TwoArgs : Construct(a)) \/ ConstructAgain

SpecTwo == InitNew /\ [][NextTwo]_vars

\* The length function applied on its own to integer start, end and step.
LenArgs ==
    {Args(FALSE, IntObj(s), IntObj(e), IntObj(st), NoObj) :
        s \in -3 .. 3, e \in -MaxNum .. MaxNum, st \in -3 .. 3}

InitLen ==
    /\ args \in LenArgs
    /\ obj = [o \in ObjIds |-> FreeObj]
    /\ arr = [a \in ArrIds |-> NoArr]
    /\ last = NoCall
    /\ nops = 0

CalcLen ==
    /\ nops = 0
    /\ nops' = 1
    /\ last' = [NoCall EXCEPT !.n = 1, !.op = "len",
                              !.val = ArithSeriesLen(args.startObj.v,
                                                     args.endObj.v,
                                                     args.stepObj.v)]
    /\ UNCHANGED <<args, obj, arr>>

NextLen == CalcLen

SpecLen == InitLen /\ [][NextLen]_vars


\* ================================================================ claims
\* A step that is call number last.n + 1 into the series code (Share and
\* Unshare are the host's and leave last alone).
IsCall(ops) == last'.n = last.n + 1 /\ last'.op \in ops

\* Element i (0-based) of a representation, written out.
ElemOf(r, i) == r.start + i * r.step
Seqn(r) == [i \in 1 .. r.len |-> r.start + (i - 1) * r.step]

\* A value of the progression type as the operations expect it: the header
\* intact and at least one element.
IsProgression(r) == r.st = "live" /\ r.hdr /\ r.len >= 1

C2_Range ==
    LET p    == last.pre
        from == IF last.a < 0 THEN 0 ELSE last.a
        to   == last.b
    IN (last.op = "range" /\ last.status = "ok" /\ IsProgression(p)
        /\ from <= to /\ to < p.len)
       => /\ last.res # 0
          /\ LET r == obj[last.res]
             IN /\ IsProgression(r)
                /\ r.start = ElemOf(p, from)
                /\ r.end = ElemOf(p, to)
                /\ r.step = p.step
                /\ r.len = to - from + 1
                /\ \A i \in 0 .. to - from : ElemOf(r, i) = ElemOf(p, from + i)

\* C3: reverse(p) yields on the in-place and on the copying path a
\* progression with start = old element(count-1), end = old element(0),
\* step = -(old step) and the same count, whose i-th element is p's former
\* element count-1-i.
C3_Reverse ==
    LET p == last.pre
    IN (last.op = "reverse" /\ last.status = "ok" /\ IsProgression(p))
       => /\ last.res # 0
          /\ last.path \in {"inplace", "copy"}
          /\ LET r == obj[last.res]
             IN /\ IsProgression(r)
                /\ r.isDouble = p.isDouble
                /\ r.start = ElemOf(p, p.len - 1)
                /\ r.end = ElemOf(p, 0)
                /\ r.step = -p.step
                /\ r.len = p.len
                /\ \A i \in 0 .. p.len - 1 :
                      ElemOf(r, i) = ElemOf(p, p.len - 1 - i)

\* An in-place reversal of a series of two or more elements whose cache was
\* populated.
C3_Witness ==
    /\ last.op = "reverse" /\ last.status = "ok" /\ last.path = "inplace"
    /\ last.pre.len >= 2 /\ last.pre.elements # 0
    /\ obj[last.res].step = -last.pre.step

\* C4: when the value is shared (more than one reference), range and
\* reverse leave the source's fields, cache and text form as they were, and
\* what they return is a new value, never the source.
C4_SharedCopies ==
    [][ (IsCall({"range", "reverse"}) /\ obj[last'.src].hdr
         /\ obj[last'.src].refCount > 1) =>
          LET src == last'.src
          IN /\ obj'[src] = obj[src]
             /\ arr' = arr
             /\ last'.path # "inplace"
             /\ last'.res # src
             /\ (last'.res # 0 =>
                    obj[last'.res].st = "free" /\ IsProgression(obj'[last'.res])) ]_vars

\* A range of a shared value whose cache was populated came back as a copy.
C4_Witness ==
    /\ last.op = "range" /\ last.status = "ok" /\ last.path = "copy"
    /\ last.res # 0 /\ last.res # last.src
    /\ last.pre.refCount > 1 /\ last.pre.elements # 0

\* C5: after d = duplicate(p), an in-place range or reverse of the
\* exclusively owned d leaves p's element sequence as it was, seen through
\* length, indexAt and getElements: p's fields are unchanged and, when p's
\* cache was populated, its cached elements stay live and equal to
\* start + i*step.
C5_DuplicateIsolated ==
    [][ (last.op = "dup" /\ last.status = "ok"
         /\ IsCall({"range", "reverse"}) /\ last'.src = last.res
         /\ last'.path = "inplace" /\ last'.status = "ok"
         /\ Live(last.src) /\ obj[last.src].hdr) =>
          LET p == last.src
          IN /\ obj'[p] = obj[p]
             /\ (ArrLive(obj[p].elements) =>
                    /\ arr'[obj[p].elements].st = "live"
                    /\ arr'[obj[p].elements].vals = Seqn(obj[p])) ]_vars

\* C6: duplicate(p) copies start, end, step, count and the type tag into a
\* new value whose cache is empty, whether or not p's cache is populated.
C6_DuplicateCacheEmpty ==
    (last.op = "dup" /\ last.status = "ok") =>
       LET p == last.pre
           d == obj[last.res]
       IN /\ last.res # last.src
          /\ d.isDouble = p.isDouble /\ d.start = p.start /\ d.end = p.end
          /\ d.step = p.step /\ d.len = p.len
          /\ d.elements = 0

\* C7: two consecutive getElements(p) calls return the identical cached
\* array: the second call allocates nothing and returns the same count.
C7_GetElementsCached ==
    [][ (last.op = "getElements" /\ last.status = "ok" /\ last.path # "count"
         /\ IsCall({"getElements"}) /\ last'.src = last.src
         /\ last'.path # "count" /\ last'.status = "ok") =>
          /\ last'.arr = last.arr
          /\ last'.val = last.val
          /\ arr' = arr
          /\ obj' = obj ]_vars

\* The second of two calls on the only value there is found the cache.
C7_Witness ==
    /\ last.op = "getElements" /\ last.status = "ok" /\ last.path = "cached"
    /\ last.n >= 2 /\ last.arr # 0 /\ last.pre.elements = last.arr
    /\ \A o \in ObjIds : o # last.src => obj[o].st = "free"

\* C8: range(p, 0, length(p)-1) has the same element sequence as p, on the
\* in-place and on the copying path.
C8_RangeAll ==
    LET p == last.pre
    IN (last.op = "range" /\ last.status = "ok" /\ IsProgression(p)
        /\ last.a = 0 /\ last.b = p.len - 1)
       => /\ last.res # 0
          /\ IsProgression(obj[last.res])
          /\ Seqn(obj[last.res]) = Seqn(p)

\* C9: reverse(reverse(p)) has the same element sequence as p, whichever of
\* the in-place and copying paths the two reversals take.
C9_ReverseTwice ==
    [][ (last.op = "reverse" /\ last.status = "ok" /\ last.res # 0
         /\ IsProgression(last.pre)
         /\ IsCall({"reverse"}) /\ last'.src = last.res
         /\ last'.status = "ok") =>
          /\ last'.res # 0
          /\ IsProgression(obj'[last'.res])
          /\ Seqn(obj'[last'.res]) = Seqn(last.pre) ]_vars

\* Two copying reversals in a row: the second reversed the copy the first
\* made and returned a third value.
C9_Witness ==
    /\ last.op = "reverse" /\ last.status = "ok" /\ last.path = "copy"
    /\ last.src = 2 /\ last.res = 3 /\ obj[1].st = "live"
    /\ last.pre.len >= 2
    /\ Seqn(obj[3]) = Seqn(obj[1])

\* C10: construction from start, end and a nonzero step, no count given
\* (the count within the host's maximum list size),
\* yields count = max(0, floor((end - start)/step) + 1) and the elements
\* start + i*step, none of them beyond end in the direction of step;
\* start=1, end=10, step=2 gives 1 3 5 7 9 and start=5, end=5, step=1 gives
\* the single element 5.
C10_Count(s, e, st) ==
    LET c == FloorDiv(e - s, st) + 1 IN IF c < 0 THEN 0 ELSE c

C12_LengthOverflow ==
    LET a  == args
        s  == assignNumber(a.useDoubles, a.startObj)
        e  == assignNumber(a.useDoubles, a.endObj)
        st == IF a.stepObj # NoObj THEN assignNumber(a.useDoubles, a.stepObj)
              ELSE IF s < e THEN 1 ELSE -1
        requested == a.lenObj.t = "int" /\ a.lenObj.v > ListSizeT_MAX
        derived   == /\ a.lenObj = NoObj /\ a.startObj # NoObj /\ a.endObj # NoObj
                     /\ st # 0 /\ C10_Count(s, e, st) > ListSizeT_MAX
    IN (last.op = "new" /\ (requested \/ derived))
       => last.status = "error" /\ last.res = 0

\* The texts t[1] .. t[n] joined by single spaces.
RECURSIVE JoinSp(_, _)
JoinSp(t, n) ==
    IF n = 0 THEN <<>>
    ELSE IF n = 1 THEN t[1]
    ELSE JoinSp(t, n - 1) \o <<" ">> \o t[n]

RECURSIVE SumLen(_, _)
SumLen(t, n) == IF n = 0 THEN 0 ELSE SumLen(t, n - 1) + Len(t[n])

\* A text split at its spaces, as a generic list parser splits it.
RECURSIVE SplitSp(_)
SplitSp(s) ==
    IF \A i \in 1 .. Len(s) : s[i] # " " THEN <<s>>
    ELSE LET k == CHOOSE i \in 1 .. Len(s) :
                     s[i] = " " /\ \A j \in 1 .. i - 1 : s[j] # " "
         IN <<SubSeq(s, 1, k - 1)>> \o SplitSp(SubSeq(s, k + 1, Len(s)))

\* The number a minimal text form denotes (a double as a multiple of
\* 1/DblUnit).
DigitVal(c) == CHOOSE d \in 0 .. 9 : Digit(d) = <<c>>

RECURSIVE ParseNat(_)
ParseNat(s) ==
    IF Len(s) = 0 THEN 0
    ELSE 10 * ParseNat(SubSeq(s, 1, Len(s) - 1)) + DigitVal(s[Len(s)])

ParseNum(s) ==
    LET neg  == Len(s) > 0 /\ s[1] = "-"
        body == IF neg THEN SubSeq(s, 2, Len(s)) ELSE s
        dot  == {i \in 1 .. Len(body) : body[i] = "."}
        mag  == IF dot = {} THEN ParseNat(body)
                ELSE LET k == CHOOSE i \in dot : TRUE
                     IN ParseNat(SubSeq(body, 1, k - 1)) * DblUnit
                        + (ParseNat(SubSeq(body, k + 1, Len(body))) * DblUnit) \div 10
    IN IF neg THEN -mag ELSE mag

\* C13: textForm(p) is the minimal text forms of element(0) ..
\* element(count-1), in order, joined by exactly one space, with no leading
\* and no trailing space; its length is the sum of the element text lengths
\* plus count-1, the size computed in pass 1 is the number of characters
\* pass 2 writes, and splitting the text at its spaces gives back the
\* element sequence.
C13_TextForm ==
    (last.op = "textForm" /\ last.status = "ok" /\ last.path = "rendered"
     /\ IsProgression(obj[last.src]))
    => LET r     == obj[last.src]
           n     == r.len
           texts == [i \in 1 .. n |-> ElemText(r, i - 1)]
           text  == r.bytes
       IN /\ r.hasBytes
          /\ text = JoinSp(texts, n)
          /\ text[1] # " " /\ text[Len(text)] # " "
          /\ Len(text) = SumLen(texts, n) + n - 1
          /\ Pass1(r, n) = Len(Pass2(r, n))
          /\ Len(SplitSp(text)) = n
          /\ [i \in 1 .. n |-> ParseNum(SplitSp(text)[i])] = Seqn(r)

\* The text of a Float series of three elements with a negative step was
\* rendered.
C13_Witness ==
    /\ last.op = "textForm" /\ last.status = "ok" /\ last.path = "rendered"
    /\ obj[last.src].isDouble /\ obj[last.src].len = 3
    /\ obj[last.src].step < 0
    /\ obj[last.src].bytes = <<"1", ".", "5", " ", "1", ".", "0", " ", "0", ".", "5">>

\* C14: every progression, after construction from any subset of start,
\* end, step and count (an explicit count given together with start, end
\* and step, and an explicit negative count, included) and after any
\* in-place or copying range and reverse, stores
\* count = max(0, floor((end - start)/step) + 1).
C14_CountInvariant ==
    \A o \in ObjIds :
       (Live(o) /\ obj[o].hdr) =>
          /\ obj[o].step # 0
          /\ obj[o].len = C10_Count(obj[o].start, obj[o].end, obj[o].step)

\* C15: no value of the progression type has count <= 0 or step = 0: a
\* construction that resolves to count <= 0, and range(p, a, b) with a > b
\* after a is clamped to >= 0, return the empty container and leave p as it
\* was, and no in-place range or reverse leaves a progression with
\* count <= 0 or step = 0.
C15_NeverEmpty ==
    /\ \A o \in ObjIds :
          (Live(o) /\ obj[o].hdr) => obj[o].len >= 1 /\ obj[o].step # 0
    /\ (last.op = "range" /\ last.status = "ok"
        /\ (IF last.a < 0 THEN 0 ELSE last.a) > last.b)
       => /\ last.res = 0 /\ last.path = "empty"
          /\ Live(last.src)
          /\ [obj[last.src] EXCEPT !.refCount = 0]
                = [last.pre EXCEPT !.refCount = 0]
    /\ (last.op = "new" /\ last.status = "ok" /\ last.res = 0)
       => last.path = "empty" /\ \A o \in ObjIds : ~Live(o)

\* C16: after any sequence of construct, duplicate, getElements, range,
\* reverse and release on a progression and its duplicates, every
\* progression whose cache is present has cache.length = count and
\* cache[i] = start + i*step for all i, each cached element still live.
C16_CacheInvariant ==
    \A o \in ObjIds :
       (Live(o) /\ obj[o].hdr /\ obj[o].elements # 0) =>
          /\ ArrLive(obj[o].elements)
          /\ Len(arr[obj[o].elements].vals) = obj[o].len
          /\ arr[obj[o].elements].vals = Seqn(obj[o])

\* C17: when range mutates an exclusively owned progression in place while
\* its cache is populated, the cached elements and the cache storage are
\* released before the new fields are installed: after the call the cache
\* is empty and no element array is left allocated that no progression
\* refers to.
C17_RangeReleasesCache ==
    [][ (IsCall({"range"}) /\ last'.path = "inplace" /\ last'.status = "ok"
         /\ ArrLive(obj[last'.src].elements)) =>
          LET src == last'.src
              old == obj[src].elements
          IN /\ obj'[src].elements = 0
             /\ (\A o \in ObjIds \ {src} : ~(Live(o) /\ obj[o].elements = old))
                   => arr'[old].st = "freed"
             /\ \A a \in ArrIds :
                   arr'[a].st = "live" =>
                      \E o \in ObjIds : obj'[o].st = "live" /\ obj'[o].elements = a ]_vars

\* C18: when reverse mutates an exclusively owned progression in place
\* while its cache is populated, the cached elements are released once, the
\* cache storage is freed and the cache is left empty (the old array is
\* neither reused nor transposed), so that the next getElements(p)
\* materializes anew, element i being the old element count-1-i.
C18_ReverseDropsCache ==
    [][ /\ (IsCall({"reverse"}) /\ last'.path = "inplace" /\ last'.status = "ok"
            /\ ArrLive(obj[last'.src].elements)) =>
             LET src == last'.src
                 old == obj[src].elements
             IN /\ arr'[old].st = "freed"
                /\ arr'[old].vals = arr[old].vals
                /\ \A a \in ArrIds \ {old} : arr'[a] = arr[a]
                /\ obj'[src].elements = 0
        /\ (last.op = "reverse" /\ last.path = "inplace" /\ last.status = "ok"
            /\ last.pre.elements # 0 /\ IsProgression(last.pre)
            /\ IsCall({"getElements"}) /\ last'.src = last.src
            /\ last'.path # "count" /\ last'.status = "ok") =>
             LET p == last.pre
             IN /\ last'.path = "filled"
                /\ last'.arr # p.elements
                /\ last'.val = p.len
                /\ arr'[last'.arr].st = "live"
                /\ arr'[last'.arr].vals =
                      [i \in 1 .. p.len |-> ElemOf(p, p.len - i)] ]_vars

\* getElements, an in-place reverse, getElements again: the first array is
\* freed and the second holds the elements in reversed order.
C18_Witness ==
    /\ last.op = "getElements" /\ last.status = "ok" /\ last.path = "filled"
    /\ last.n = 3 /\ last.arr = 2 /\ last.pre.elements = 0
    /\ arr[1].st = "freed" /\ arr[2].st = "live"
    /\ Len(arr[1].vals) >= 2
    /\ arr[2].vals = [i \in 1 .. Len(arr[1].vals) |->
                         arr[1].vals[Len(arr[1].vals) + 1 - i]]
    /\ obj[last.src].step = -assignNumber(args.useDoubles, args.stepObj)

\* C19: when getElements fails partway through materializing the elements
\* (making element k fails), the call reports failure, every element made
\* in the attempt and the partly filled array are released, and the
\* progression's start, end, step, count and cache are what they were
\* before the call.
C19_GetElementsFailure ==
    [][ (IsCall({"getElements"}) /\ last'.status = "error") =>
          /\ obj' = obj
          /\ \A a \in ArrIds : (arr'[a].st = "live") = (arr[a].st = "live") ]_vars

\* The rendering of a sequence of numbers, Integer or Float.
TextOf(isDouble, vals) ==
    JoinSp([i \in 1 .. Len(vals) |->
               IF isDouble THEN FormatDbl(vals[i]) ELSE FormatInt(vals[i])],
           Len(vals))

\* C20: after an in-place range or an in-place reverse of a progression
\* whose text form had been rendered, the next textForm(p) is the rendering
\* of p's new element sequence, never the stale text; and while no in-place
\* mutation has occurred since the rendering, textForm(p) returns the text
\* rendered before.
C20_TextNotStale ==
    [][ /\ (last.op \in {"range", "reverse"} /\ last.path = "inplace"
            /\ last.status = "ok" /\ IsProgression(last.pre) /\ last.pre.hasBytes
            /\ (last.op = "range" => last.b < last.pre.len)
            /\ IsCall({"textForm"}) /\ last'.src = last.src) =>
             LET p    == last.pre
                 from == IF last.a < 0 THEN 0 ELSE last.a
                 new  == IF last.op = "reverse"
                         THEN [i \in 1 .. p.len |-> ElemOf(p, p.len - i)]
                         ELSE [i \in 1 .. last.b - from + 1 |->
                                  ElemOf(p, from + i - 1)]
             IN /\ last'.status = "ok"
                /\ obj'[last.src].hasBytes
                /\ obj'[last.src].bytes = TextOf(p.isDouble, new)
        /\ (IsCall({"textForm"}) /\ obj[last'.src].hdr
            /\ obj[last'.src].hasBytes) =>
             /\ last'.status = "ok"
             /\ obj'[last'.src].bytes = obj[last'.src].bytes
             /\ obj[last'.src].bytes =
                   TextOf(obj[last'.src].isDouble, Seqn(obj[last'.src])) ]_vars

\* C21: an in-place range of an exclusively owned Float progression
\* overwrites that progression's own start, end, step and count as the
\* Integer variant does and writes to no other storage: afterwards
\* length(p) = to - from + 1 and indexAt(p, i) is the old element from + i,
\* and the header of the value (reference count, type tag, text form
\* pointer) is not overwritten by the field stores.
C21_FloatRangeInPlace ==
    [][ (IsCall({"range"}) /\ last'.path = "inplace" /\ last'.status = "ok"
         /\ IsProgression(obj[last'.src]) /\ obj[last'.src].isDouble
         /\ (IF last'.a < 0 THEN 0 ELSE last'.a) <= last'.b
         /\ last'.b < obj[last'.src].len) =>
          LET src  == last'.src
              p    == obj[src]
              q    == obj'[src]
              from == IF last'.a < 0 THEN 0 ELSE last'.a
              to   == last'.b
          IN /\ q.st = "live" /\ q.hdr /\ q.refCount = p.refCount
             /\ q.isDouble
             /\ q.start = ElemOf(p, from) /\ q.end = ElemOf(p, to)
             /\ q.step = p.step
             /\ q.len = to - from + 1
             /\ \A i \in 0 .. to - from : ElemOf(q, i) = ElemOf(p, from + i)
             /\ \A o \in ObjIds \ {src} : obj'[o] = obj[o] ]_vars

\* C22: for from <= to with to >= count (or from >= count), range(p, from,
\* to) detects the failing element lookup: it neither returns nor installs
\* a progression whose end or count comes from an unset element value,
\* yields no value that is not an element of p, and leaves p's start, end,
\* step, count and cache unchanged.
C22_RangeOutOfRange ==
    [][ (IsCall({"range"}) /\ IsProgression(obj[last'.src])
         /\ (IF last'.a < 0 THEN 0 ELSE last'.a) <= last'.b
         /\ last'.b >= obj[last'.src].len) =>
          LET src == last'.src
              p   == obj[src]
          IN /\ last'.status # "crash"
             /\ obj'[src] = p
             /\ arr' = arr
             /\ last'.res # 0 =>
                   /\ IsProgression(obj'[last'.res])
                   /\ \A i \in 0 .. obj'[last'.res].len - 1 :
                         \E j \in 0 .. p.len - 1 :
                            ElemOf(obj'[last'.res], i) = ElemOf(p, j) ]_vars

\* C23: construction is deterministic for every subset of supplied
\* arguments: two constructions given the same supplied arguments and the
\* same type flag yield the same outcome and the same start, step and
\* count; a step or count that is not supplied takes a value determined by
\* the supplied arguments alone.
C23_Deterministic ==
    [][ (last.op = "new" /\ IsCall({"new"})) =>
          /\ last'.status = last.status
          /\ last'.path = last.path
          /\ last.res # 0 =>
                /\ last'.res # 0
                /\ obj'[last'.res].isDouble = obj[last.res].isDouble
                /\ obj'[last'.res].start = obj[last.res].start
                /\ obj'[last'.res].step = obj[last.res].step
                /\ obj'[last'.res].len = obj[last.res].len ]_vars

\* C24: ArithSeriesLen(start, end, step) returns 0 when step = 0 and
\* otherwise max(0, floor((end - start) / step) + 1), with mathematical
\* floor division, for all integer start, end and step; it never returns
\* a negative value.
C24_ArithSeriesLen ==
    last.op = "len" =>
       LET s  == args.startObj.v
           e  == args.endObj.v
           st == args.stepObj.v
       IN /\ last.val = (IF st = 0 THEN 0 ELSE C10_Count(s, e, st))
          /\ last.val >= 0

====
